---- MODULE Spec2Model ----
(***************************************************************************)
(* A model of pycule: the process-wide rate gate of decorators.py          *)
(* (mcule_api_limits), the response classifier (response_handling) with    *)
(* the success callbacks of callbacks.py, and the endpoint operations of   *)
(* the two client classes of core.py that are decorated with both, and the *)
(* route tables of urls.py with the constructors and set_base_url of the   *)
(* clients that own them.                                                  *)
(*                                                                         *)
(* Time is counted in whole ticks of 1e-4 s (TLC's integers cannot hold a  *)
(* day in finer ticks).  The program observes time only through            *)
(* time.time(); each read of the clock advances it by one of Delays since  *)
(* the previous read.                                                      *)
(***************************************************************************)
EXTENDS Integers, Sequences, FiniteSets, TLC

\* ------------------------------------------------------------- bounds
\* Number of threads that may call client operations concurrently.
NumThreads == 2
\* Number of calls issued in one behaviour: one after another, concurrently,
\* and over every endpoint and response.
MaxCalls == 4
ConcurrentCalls == 3
EndpointCalls == 2
ClientCalls == 3
SetCalls == 1
\* Number of client objects, and of set_base_url calls in one behaviour.
NumClients == 2
MaxSets == 2
\* decorators.py:12 sets 100; the model runs the same code with a small budget.
MAXIMUM_REQUESTS_PER_MINUTE == 2

\* ---------------------------------------------------------- constants
\* The unit of the clock: 1e-4 s.
TicksPerSecond == 10000
\* decorators.py:14, 1e-5 s, a tenth of a tick: an elapsed time of a whole
\* number of ticks is below 1e-5 s exactly when it is below one tick.
MININUM_TIMEOUT_BETWEEN_REQUESTS == 1
\* decorators.py:65, the literal 60 (seconds).
ResetAfter == 60 * TicksPerSecond
\* decorators.py:15, the one day offset 86400 (seconds).
DayOffset == 86400 * TicksPerSecond

Threads == 1..NumThreads
\* The thread that issues the calls of the sequential specification.
Main == 1

\* Elapsed time between two consecutive reads of the clock: none (two reads
\* in the same tick), one tick, half a minute, a minute.
Delays == {0, 1, 30 * TicksPerSecond, 60 * TicksPerSecond}

\* time.time() at the import of decorators.py: half past a whole second.
ImportTime == TicksPerSecond \div 2

\* int(x) of a time in seconds: truncation to a whole second.
IntSeconds(x) == (x \div TicksPerSecond) * TicksPerSecond

None == "None"

\* ------------------------------------------------------- route tables
\* The attributes _update_routes sets on a route table of each variant.
MCuleRouteNames ==
    {"api_url", "database_url", "compounddetails_url", "inchikeylookup_url",
     "singlequery_url", "compoundavailability_url", "compoundprices_url",
     "multiplequeries_url", "multiplequerieswithavailability_url",
     "similaritysearch_url", "substructuresearch_url", "quoterequest_url",
     "quoterequeststatus_url", "detailedquote_url",
     "quotemissingstructures_url", "downloadquote_url"}

UltimateMCuleRouteNames ==
    {"api_url", "search_url", "pricing_url", "quoterequest_url",
     "quotestatus_url", "detailedquote_url", "downloadquote_url"}

RouteNames(wrapper) ==
    IF wrapper = "MCuleWrapper" THEN MCuleRouteNames ELSE UltimateMCuleRouteNames

\* "{}/{}".format(a, b)
Format(a, b) == a \o "/" \o b

\* The assignments of _update_routes in their order: the attribute assigned
\* and what its format string puts after the first "{}/".  The first "{}" is
\* self._base_url for api_url and self.api_url for every other attribute.
MCuleUpdateRoutes ==
    << <<"api_url", "api/v1">>,
       <<"database_url", "database-files">>,
       <<"compounddetails_url", "compound/{mcule_id}">>,
       <<"inchikeylookup_url", "lookup/inchikey/{inchi_key}">>,
       <<"singlequery_url", "search/lookup/?query={query}">>,
       <<"compoundavailability_url", "compound/{mcule_id}/availability">>,
       <<"compoundprices_url", "compound/{mcule_id}/prices">>,
       <<"multiplequeries_url", "search/exact/">>,
       <<"multiplequerieswithavailability_url", "search/exact/availability/">>,
       <<"similaritysearch_url", "search/sim/">>,
       <<"substructuresearch_url", "search/sss/">>,
       <<"quoterequest_url", "iquote-queries/">>,
       <<"quoterequeststatus_url", "iquote-queries/{quote_id}">>,
       <<"detailedquote_url", "iquotes/{quote_id}">>,
       <<"quotemissingstructures_url", "iquotes/{quote_id}/missing">>,
       <<"downloadquote_url", "iquotes/{quote_id}/{download_type}">> >>

UltimateMCuleUpdateRoutes ==
    << <<"api_url", "api/v1">>,
       <<"search_url", "searches/">>,
       <<"pricing_url", "pricing/">>,
       <<"quoterequest_url", "iquote-queries/">>,
       <<"quotestatus_url", "iquote-queries/{quote_id}/">>,
       <<"detailedquote_url", "iquotes/{quote_id}/">>,
       <<"downloadquote_url", "iquotes/{quote_id}/{file_type}/">> >>

Wrappers == {"MCuleWrapper", "UltimateMCuleWrapper"}

UpdateRoutes(wrapper) ==
    IF wrapper = "MCuleWrapper" THEN MCuleUpdateRoutes ELSE UltimateMCuleUpdateRoutes

\* The k-th assignment of _update_routes on the attributes self has.
AssignRoute(wrapper, self, k) ==
    LET attribute == UpdateRoutes(wrapper)[k][1]
        tail == UpdateRoutes(wrapper)[k][2]
        head == IF attribute = "api_url" THEN self["_base_url"] ELSE self["api_url"]
    IN  (attribute :> Format(head, tail)) @@ self

\* _update_routes from its k-th assignment to its last.
RECURSIVE update_routes(_, _, _)
update_routes(wrapper, self, k) ==
    IF k > Len(UpdateRoutes(wrapper)) THEN self
    ELSE update_routes(wrapper, AssignRoute(wrapper, self, k), k + 1)

\* The environment variable and the default host of each variant.
EnvironmentVariable(wrapper) ==
    IF wrapper = "MCuleWrapper" THEN "MCULE_BASE_URL" ELSE "MCULE_ULTIMATE_BASE_URL"
DefaultHost(wrapper) ==
    IF wrapper = "MCuleWrapper" THEN "https://mcule.com"
    ELSE "https://ultimateapp.mcule.com"

\* os.getenv(key, default) in the environment env, where None is unset.
getenv(env, key, default) == IF env[key] # None THEN env[key] ELSE default

\* "x if x else y" tests the truth of x: None and "" are false.
Falsy == {None, ""}

\* MCuleRoutes(base_url) / UltimateMCuleRoutes(base_url): __init__.
Routes(wrapper, base_url, env) ==
    LET self == "_base_url" :>
                    (IF base_url \notin Falsy THEN base_url
                     ELSE getenv(env, EnvironmentVariable(wrapper), DefaultHost(wrapper)))
    IN  update_routes(wrapper, self, 1)

\* _construct_headers of each class.
construct_headers(wrapper, authorisation_token) ==
    ("Content-Type" :> "application/json") @@
    ("Authorization" :> (IF wrapper = "MCuleWrapper"
                         THEN "Token " \o authorisation_token
                         ELSE authorisation_token))

\* MCuleWrapper(authorisation_token, base_url=base_url) and its Ultimate
\* counterpart: __init__.
Client(wrapper, authorisation_token, base_url, env) ==
    [wrapper |-> wrapper,
     authorisation_token |-> authorisation_token,
     headers |-> construct_headers(wrapper, authorisation_token),
     routes |-> Routes(wrapper, base_url, env)]

\* A client variable nothing has been assigned to yet.
NoClient == [wrapper |-> None]

\* ---------------------------------------------------------- endpoints
\* One decorated method: its class, its name, the success_status_code and
\* on_success given to response_handling, the route attribute its body
\* reads, and the names its body reads that are neither parameters nor
\* assigned locals nor module globals.
Endpoint(w, n, code, route, unbound) ==
    [wrapper |-> w, name |-> n, success_status_code |-> code,
     on_success |-> "default_on_success", route |-> route, unbound |-> unbound]

MCuleWrapperEndpoints ==
    {Endpoint("MCuleWrapper", "databasefiles", 200, "database_url", {}),
     Endpoint("MCuleWrapper", "compounddetails", 200, "compounddetails_url", {}),
     Endpoint("MCuleWrapper", "inchikeylookup", 200, "inchikeylookup_url", {}),
     Endpoint("MCuleWrapper", "singlequerysearch", 200, "singlequery_url", {}),
     Endpoint("MCuleWrapper", "compoundavailability", 200, "compoundavailability_url", {}),
     Endpoint("MCuleWrapper", "compoundprices", 200, "compoundprices_url", {}),
     Endpoint("MCuleWrapper", "compoundpricesamount", 200, "compoundpricessetamount_url", {}),
     Endpoint("MCuleWrapper", "multiplequeriessearch", 200, "multiplequeries_url", {}),
     Endpoint("MCuleWrapper", "multiplequerieswithavailability", 200,
              "multiplequerieswithavailability_url", {}),
     Endpoint("MCuleWrapper", "similaritysearch", 200, "similaritysearch_url", {}),
     Endpoint("MCuleWrapper", "substructuresearch", 200, "substructuresearch_url", {}),
     Endpoint("MCuleWrapper", "quoterequest", 201, "quoterequest_url", {}),
     Endpoint("MCuleWrapper", "quoterequeststatus", 200, "quoterequeststatus_url", {}),
     Endpoint("MCuleWrapper", "detailedquote", 200, "detailedquote_url", {}),
     Endpoint("MCuleWrapper", "quotemissingstructures", 200,
              "quotemissingstructures_url", {})}

UltimateMCuleWrapperEndpoints ==
    {Endpoint("UltimateMCuleWrapper", "exact_search", 201, "search_url", {}),
     Endpoint("UltimateMCuleWrapper", "similarity_search", 201, "search_url", {}),
     Endpoint("UltimateMCuleWrapper", "substructure_search", 201, "search_url", {}),
     Endpoint("UltimateMCuleWrapper", "price_search_single", 201, "pricing_url",
              {"compounds"}),
     Endpoint("UltimateMCuleWrapper", "price_search_multi", 201, "pricing_url", {}),
     Endpoint("UltimateMCuleWrapper", "quote_request_single", 201, "quoterequest_url",
              {"amounts"}),
     Endpoint("UltimateMCuleWrapper", "quote_request_multi", 201, "quoterequest_url", {}),
     Endpoint("UltimateMCuleWrapper", "quote_status", 201, "quotestatus_url", {}),
     Endpoint("UltimateMCuleWrapper", "detailed_quote", 201, "detailedquote_url", {}),
     Endpoint("UltimateMCuleWrapper", "excel_quote", 201, "downloadquote_url", {})}

Endpoints == MCuleWrapperEndpoints \cup UltimateMCuleWrapperEndpoints

NoEndpoint == Endpoint(None, None, 0, None, {})

\* What evaluating a method body up to its requests.get / requests.post call
\* raises: an unbound name first (the data dictionary is built before the
\* route is read), then a route attribute the table does not have.
BodyRaises(e) ==
    IF e.unbound # {} THEN "NameError"
    ELSE IF e.route \notin RouteNames(e.wrapper) THEN "AttributeError"
    ELSE None

\* ---------------------------------------------------------- responses
\* Status codes a server answers with.
StatusCodes == {200, 201, 204, 400, 401, 403, 404, 429, 500, 503}

\* Response bodies: a search result with one match, one with none, a JSON
\* object without results, a first result without compound, a compound
\* without idx, and a body that is not JSON.
BodyFound == "{\"results\": [{\"compound\": {\"idx\": \"MCULE-001\"}}]}"
BodyEmpty == "{\"results\": []}"
BodyDetail == "{\"detail\": \"x\"}"
BodyNoCompound == "{\"results\": [{\"smiles\": \"C\"}]}"
BodyNoIdx == "{\"results\": [{\"compound\": {\"name\": \"x\"}}]}"
BodyNotJson == "<html>"
Bodies == {BodyFound, BodyEmpty, BodyDetail, BodyNoCompound, BodyNoIdx, BodyNotJson}

Response(status, text) == [status_code |-> status, text |-> text]
Responses == {Response(s, b) : s \in StatusCodes, b \in Bodies}
NoResponse == Response(0, None)

\* response.json(): the parsed body, or the decoder's exception.
Parsed(v) == [raised |-> None, value |-> v]
Json(response) ==
    CASE response.text = BodyFound ->
            Parsed([results |-> <<[compound |-> [idx |-> "MCULE-001"]]>>])
      [] response.text = BodyEmpty -> Parsed([results |-> <<>>])
      [] response.text = BodyDetail -> Parsed([detail |-> "x"])
      [] response.text = BodyNoCompound -> Parsed([results |-> <<[smiles |-> "C"]>>])
      [] response.text = BodyNoIdx ->
            Parsed([results |-> <<[compound |-> [name |-> "x"]]>>])
      [] OTHER -> [raised |-> "JSONDecodeError", value |-> [none |-> None]]

\* What a call of a Python function gives: a returned dictionary, or an
\* exception; log holds the entries it sent to LOGGER, in order.
Returned(dict, log) == [raised |-> None, value |-> dict, log |-> log]
Raised(exc, log) == [raised |-> exc, value |-> [none |-> None], log |-> log]
NoResult == Raised(None, <<>>)

\* callbacks.py
default_on_success(response) ==
    LET response_dict == Json(response)
    IN  IF response_dict.raised # None THEN Raised(response_dict.raised, <<>>)
        ELSE Returned([response |-> response_dict.value], <<>>)

\* A transform that gives no compound_id for an empty results list.
search_result_on_success_FirstOrNone(response) ==
    LET response_dict == Json(response)
    IN  IF response_dict.raised # None THEN Raised(response_dict.raised, <<>>)
        ELSE IF "results" \notin DOMAIN response_dict.value THEN Raised("KeyError", <<>>)
        ELSE IF Len(response_dict.value.results) = 0
        THEN Returned([compound_id |-> None, response |-> response_dict.value], <<>>)
        ELSE IF "compound" \notin DOMAIN response_dict.value.results[1]
        THEN Raised("KeyError", <<>>)
        ELSE IF "idx" \notin DOMAIN response_dict.value.results[1].compound
        THEN Raised("KeyError", <<>>)
        ELSE Returned([compound_id |-> response_dict.value.results[1].compound.idx,
                       response |-> response_dict.value], <<>>)

\* response_dict["results"][0]["compound"]["idx"], subscript by subscript.
search_result_on_success(response) ==
    LET response_dict == Json(response)
    IN  IF response_dict.raised # None THEN Raised(response_dict.raised, <<>>)
        ELSE IF "results" \notin DOMAIN response_dict.value THEN Raised("KeyError", <<>>)
        ELSE IF Len(response_dict.value.results) = 0 THEN Raised("IndexError", <<>>)
        ELSE IF "compound" \notin DOMAIN response_dict.value.results[1]
        THEN Raised("KeyError", <<>>)
        ELSE IF "idx" \notin DOMAIN response_dict.value.results[1].compound
        THEN Raised("KeyError", <<>>)
        ELSE Returned([compound_id |-> response_dict.value.results[1].compound.idx,
                       response |-> response_dict.value], <<>>)

Callbacks == {"default_on_success", "search_result_on_success"}

on_success_call(on_success, response) ==
    IF on_success = "search_result_on_success"
    THEN search_result_on_success(response)
    ELSE default_on_success(response)

\* LOGGER entries of response_handling.
LogError(message) == [level |-> "error", message |-> message]
LogDebug(response) == [level |-> "debug", message |-> response.text]

FailureLog(response, message) == <<LogError(message), LogDebug(response)>>

\* A classifier that tests the failure categories before the success code.
response_handling_FailureFirst(response, success_status_code, on_success) ==
    IF response.status_code \in {400, 401, 403, 404, 429, 500}
    THEN Returned([response |-> response], FailureLog(response, "failure"))
    ELSE IF response.status_code = success_status_code
    THEN on_success_call(on_success, response)
    ELSE Returned([response |-> response], <<>>)

\* A classifier that logs a failure at error level only.
response_handling_NoDebug(response, success_status_code, on_success) ==
    IF response.status_code = success_status_code
    THEN on_success_call(on_success, response)
    ELSE Returned([response |-> response],
           IF response.status_code \in {400, 401, 403, 404, 429, 500}
           THEN <<LogError("failure")>>
           ELSE <<>>)

\* A classifier that takes every 2xx status for a success.
response_handling_Any2xx(response, success_status_code, on_success) ==
    IF response.status_code = success_status_code \/ response.status_code \div 100 = 2
    THEN on_success_call(on_success, response)
    ELSE Returned([response |-> response],
           IF response.status_code \in {400, 401, 403, 404, 429, 500}
           THEN FailureLog(response, "failure")
           ELSE <<>>)

\* decorators.py, response_handling._wrapper after function() has returned
\* response.
response_handling(response, success_status_code, on_success) ==
    IF response.status_code = success_status_code
    THEN on_success_call(on_success, response)
    ELSE Returned([response |-> response],
           CASE response.status_code = 400 ->
                    FailureLog(response, "Bad request - probably a validation error")
             [] response.status_code = 401 ->
                    FailureLog(response, "Unauthorised - check your API key")
             [] response.status_code = 403 -> FailureLog(response, "Permission denied")
             [] response.status_code = 404 -> FailureLog(response, "Not found")
             [] response.status_code = 429 ->
                    FailureLog(response, "Too many requests made")
             [] response.status_code = 500 -> FailureLog(response, "Server error")
             [] OTHER -> <<>>)

\* -------------------------------------------------------------- state
VARIABLES
    now,                  \* the clock: the value time.time() returned last
    LAST_REQUEST_TIME,    \* decorators.py module global
    REQUEST_COUNT,        \* decorators.py module global
    pc,                   \* per thread: where its call stands
    call,                 \* per thread: the endpoint method it called
    current_request_time, \* per thread: the local of _wrapper
    loaded_count,         \* per thread: REQUEST_COUNT as read by REQUEST_COUNT += 1
    response,             \* per thread: what the method body returned
    outcome,              \* per thread: what the call gave its caller
    events,               \* per thread: what the call has done so far, in order
    entry,                \* per thread: the rate state its call started from
    wrote,                \* per thread: the globals its call has assigned
    issued,               \* the time of every call issued, in order
    admissions,           \* every call that passed the gate: its thread and time
    returns,              \* number of calls whose method has returned a response
    window_start,         \* the time of the call that counted 0 -> 1 last
    calls,                \* number of calls issued so far
    environ,              \* os.environ: the two base URL variables
    clients,              \* the client objects constructed
    given,                \* per client: the base_url its constructor was given
    frame,                \* per thread: self, value and the position of its
                          \*   set_base_url call in _update_routes
    seen,                 \* per thread: the route attribute it read last, the
                          \*   route table as it was at that read and the
                          \*   threads then inside set_base_url on that client
    sets,                 \* number of set_base_url calls made so far
    through               \* the client of every call made through a client
                          \*   object, in the order of issue

vars == <<now, LAST_REQUEST_TIME, REQUEST_COUNT, pc, call, current_request_time,
          loaded_count, response, outcome, events, entry, wrote, issued,
          admissions, returns, window_start, calls,
          environ, clients, given, frame, seen, sets, through>>

\* What the gated calls read and write, and what the route tables do.
gate_state == <<now, LAST_REQUEST_TIME, REQUEST_COUNT, call, current_request_time,
                loaded_count, response, outcome, events, entry, wrote, issued,
                admissions, returns, window_start, calls>>
client_state == <<environ, clients, given, frame, seen, sets, through>>

ClientIds == 1..NumClients
NoEnvironment == [MCULE_BASE_URL |-> None, MCULE_ULTIMATE_BASE_URL |-> None]
NoFrame == [self |-> 0, value |-> None, k |-> 0]
NoSeen == [self |-> 0, attribute |-> None, value |-> None, routes |-> <<>>,
           setting |-> {}]

\* No client has been constructed; the environment is one of envs.
ClientsInit(envs) ==
    /\ environ \in envs
    /\ clients = [c \in ClientIds |-> NoClient]
    /\ given = [c \in ClientIds |-> None]
    /\ frame = [t \in Threads |-> NoFrame]
    /\ seen = [t \in Threads |-> NoSeen]
    /\ sets = 0
    /\ through = <<>>

rate_state == <<LAST_REQUEST_TIME, REQUEST_COUNT>>
locals == <<call, current_request_time, loaded_count, response, entry>>
history == <<issued, admissions, returns, window_start>>

NoEntry == [id |-> 0, inflight |-> {}, last |-> 0, count |-> 0, window |-> 0, admitted |-> 0]

\* The state after import of decorators.py at t0, before any call, with
\* LAST_REQUEST_TIME set to last.
RateInit(t0, last) ==
    /\ now = t0
    /\ LAST_REQUEST_TIME = last
    /\ REQUEST_COUNT = 0
    /\ pc = [t \in Threads |-> "idle"]
    /\ call = [t \in Threads |-> NoEndpoint]
    /\ current_request_time = [t \in Threads |-> 0]
    /\ loaded_count = [t \in Threads |-> 0]
    /\ response = [t \in Threads |-> NoResponse]
    /\ outcome = [t \in Threads |-> NoResult]
    /\ events = [t \in Threads |-> <<>>]
    /\ entry = [t \in Threads |-> NoEntry]
    /\ wrote = [t \in Threads |-> {}]
    /\ issued = <<>>
    /\ admissions = <<>>
    /\ returns = 0
    /\ window_start = last
    /\ calls = 0

InitAt(t0) ==
    /\ RateInit(t0, IntSeconds(t0) - DayOffset)
    /\ ClientsInit({NoEnvironment})

\* An import that sets LAST_REQUEST_TIME to the time of the import.
Init_StartsNow ==
    /\ RateInit(ImportTime, ImportTime)
    /\ ClientsInit({NoEnvironment})

Init == InitAt(ImportTime)

\* The calls in progress, by their numbers of issue.
InFlight == {entry[u].id : u \in {v \in Threads : pc[v] \notin {"idle", "done"}}}

Goto(t, label) == pc' = [pc EXCEPT ![t] = label]
Did(t, event) == events' = [events EXCEPT ![t] = Append(@, event)]
Raise(t, exc) ==
    /\ outcome' = [outcome EXCEPT ![t] = Raised(exc, <<>>)]
    /\ Goto(t, "done")

\* -------------------------------------------- mcule_api_limits._wrapper
\* A client method is called: response_handling._wrapper calls
\* mcule_api_limits._wrapper, whose first statement reads the clock (line 60).
ReadTime(t, e) ==
    /\ pc[t] \in {"idle", "done"}
    /\ calls < MaxCalls
    /\ \E d \in Delays :
        /\ now' = now + d
        /\ current_request_time' = [current_request_time EXCEPT ![t] = now + d]
        /\ issued' = Append(issued, now + d)
    /\ call' = [call EXCEPT ![t] = e]
    /\ loaded_count' = [loaded_count EXCEPT ![t] = 0]
    /\ response' = [response EXCEPT ![t] = NoResponse]
    /\ outcome' = [outcome EXCEPT ![t] = NoResult]
    /\ events' = [events EXCEPT ![t] = <<>>]
    /\ wrote' = [wrote EXCEPT ![t] = {}]
    /\ entry' = [entry EXCEPT ![t] = [id |-> calls + 1,
                                      inflight |-> InFlight,
                                      last |-> LAST_REQUEST_TIME,
                                      count |-> REQUEST_COUNT,
                                      window |-> window_start,
                                      admitted |-> Len(admissions)]]
    /\ calls' = calls + 1
    /\ Goto(t, "test_frequency")
    /\ UNCHANGED <<rate_state, admissions, returns, window_start>>

\* Lines 61-63: test frequency, against the timeout given.
TestFrequencyAgainst(t, timeout) ==
    /\ pc[t] = "test_frequency"
    /\ IF current_request_time[t] - LAST_REQUEST_TIME < timeout
       THEN Raise(t, "RequestTimeoutNotElapsed")
       ELSE Goto(t, "reset_count") /\ UNCHANGED outcome
    /\ UNCHANGED <<now, rate_state, locals, events, wrote, history, calls>>

TestFrequency(t) == TestFrequencyAgainst(t, MININUM_TIMEOUT_BETWEEN_REQUESTS)

\* Lines 64-68: optionally reset request count, after the idle time given.
ResetCountAfter(t, idle) ==
    /\ pc[t] = "reset_count"
    /\ IF current_request_time[t] - LAST_REQUEST_TIME >= idle
       THEN /\ REQUEST_COUNT' = 0
            /\ wrote' = [wrote EXCEPT ![t] = @ \cup {"REQUEST_COUNT"}]
            /\ Did(t, "reset")
       ELSE UNCHANGED <<REQUEST_COUNT, wrote, events>>
    /\ Goto(t, "test_count")
    /\ UNCHANGED <<now, LAST_REQUEST_TIME, locals, outcome, issued,
                   admissions, returns, window_start, calls>>

ResetCount_HalfMinute(t) == ResetCountAfter(t, ResetAfter \div 2)
ResetCount(t) == ResetCountAfter(t, ResetAfter)

\* Lines 69-70: the gate's second test, against the maximum given; a call
\* that passes it is admitted.
TestCountAgainst(t, maximum) ==
    /\ pc[t] = "test_count"
    /\ IF REQUEST_COUNT >= maximum
       THEN /\ Raise(t, "RequestsPerMinuteExceeded")
            /\ UNCHANGED <<events, admissions>>
       ELSE /\ Goto(t, "function")
            /\ Did(t, "admitted")
            /\ admissions' = Append(admissions,
                                    [thread |-> t, time |-> current_request_time[t]])
            /\ UNCHANGED outcome
    /\ UNCHANGED <<now, rate_state, locals, wrote, issued, returns, window_start, calls>>

\* A gate that counts the attempts it rejects.
TestCount_CountsRejected(t) ==
    /\ pc[t] = "test_count"
    /\ IF REQUEST_COUNT >= MAXIMUM_REQUESTS_PER_MINUTE
       THEN /\ Raise(t, "RequestsPerMinuteExceeded")
            /\ REQUEST_COUNT' = REQUEST_COUNT + 1
            /\ wrote' = [wrote EXCEPT ![t] = @ \cup {"REQUEST_COUNT"}]
            /\ UNCHANGED <<events, admissions>>
       ELSE /\ Goto(t, "function")
            /\ Did(t, "admitted")
            /\ admissions' = Append(admissions,
                                    [thread |-> t, time |-> current_request_time[t]])
            /\ UNCHANGED <<outcome, REQUEST_COUNT, wrote>>
    /\ UNCHANGED <<now, LAST_REQUEST_TIME, locals, issued, returns, window_start, calls>>

\* A gate that records the time of the attempts it rejects.
TestCount_StampsRejected(t) ==
    /\ pc[t] = "test_count"
    /\ IF REQUEST_COUNT >= MAXIMUM_REQUESTS_PER_MINUTE
       THEN /\ Raise(t, "RequestsPerMinuteExceeded")
            /\ LAST_REQUEST_TIME' = current_request_time[t]
            /\ wrote' = [wrote EXCEPT ![t] = @ \cup {"LAST_REQUEST_TIME"}]
            /\ UNCHANGED <<events, admissions>>
       ELSE /\ Goto(t, "function")
            /\ Did(t, "admitted")
            /\ admissions' = Append(admissions,
                                    [thread |-> t, time |-> current_request_time[t]])
            /\ UNCHANGED <<outcome, LAST_REQUEST_TIME, wrote>>
    /\ UNCHANGED <<now, REQUEST_COUNT, locals, issued, returns, window_start, calls>>

\* A gate that holds against a client only a quota which earlier calls
\* through that client had a part in.
TestCount_PerClient(t) ==
    TestCountAgainst(t,
        IF \E i \in 1..(Len(through) - 1) : through[i] = through[Len(through)]
        THEN MAXIMUM_REQUESTS_PER_MINUTE
        ELSE MAXIMUM_REQUESTS_PER_MINUTE + Len(through))

TestCount_Strict(t) == TestCountAgainst(t, MAXIMUM_REQUESTS_PER_MINUTE + 1)
TestCount(t) == TestCountAgainst(t, MAXIMUM_REQUESTS_PER_MINUTE)

\* Line 72, function(*args, **kwargs): the method body up to its HTTP call.
Function(t) ==
    /\ pc[t] = "function"
    /\ Did(t, "function")
    /\ IF BodyRaises(call[t]) # None
       THEN Raise(t, BodyRaises(call[t]))
       ELSE Goto(t, "request") /\ UNCHANGED outcome
    /\ UNCHANGED <<now, rate_state, locals, wrote, history, calls>>

\* A gate that records the time of a request when its transport raises.
Request_StampsFailure(t, responses) ==
    /\ pc[t] = "request"
    /\ Did(t, "request")
    /\ \/ /\ Raise(t, "RequestException")
          /\ LAST_REQUEST_TIME' = current_request_time[t]
          /\ UNCHANGED <<response, returns>>
       \/ /\ \E r \in responses : response' = [response EXCEPT ![t] = r]
          /\ returns' = returns + 1
          /\ Goto(t, "update_last")
          /\ UNCHANGED <<outcome, LAST_REQUEST_TIME>>
    /\ UNCHANGED <<now, REQUEST_COUNT, call, current_request_time, loaded_count, entry,
                   wrote, issued, admissions, window_start, calls>>

\* requests.get / requests.post of the method body: the transport raises, or
\* a response comes back and the method returns it.
Request(t, responses) ==
    /\ pc[t] = "request"
    /\ Did(t, "request")
    /\ \/ /\ Raise(t, "RequestException")
          /\ UNCHANGED <<response, returns>>
       \/ /\ \E r \in responses : response' = [response EXCEPT ![t] = r]
          /\ returns' = returns + 1
          /\ Goto(t, "update_last")
          /\ UNCHANGED outcome
    /\ UNCHANGED <<now, rate_state, call, current_request_time, loaded_count, entry,
                   wrote, issued, admissions, window_start, calls>>

\* Lines 73-76: update last request time.
UpdateLastRequestTime(t) ==
    /\ pc[t] = "update_last"
    /\ LAST_REQUEST_TIME' = current_request_time[t]
    /\ wrote' = [wrote EXCEPT ![t] = @ \cup {"LAST_REQUEST_TIME"}]
    /\ Goto(t, "load_count")
    /\ UNCHANGED <<now, REQUEST_COUNT, locals, outcome, events, history, calls>>

\* Lines 77-80, REQUEST_COUNT += 1: the lock is created by this call and no
\* other thread ever holds it, so the read and the write are two steps.
LoadCount(t) ==
    /\ pc[t] = "load_count"
    /\ loaded_count' = [loaded_count EXCEPT ![t] = REQUEST_COUNT]
    /\ Goto(t, "store_count")
    /\ UNCHANGED <<now, rate_state, call, current_request_time, response, entry,
                   outcome, events, wrote, history, calls>>

StoreCount(t) ==
    /\ pc[t] = "store_count"
    /\ REQUEST_COUNT' = loaded_count[t] + 1
    /\ wrote' = [wrote EXCEPT ![t] = @ \cup {"REQUEST_COUNT"}]
    /\ window_start' = IF loaded_count[t] = 0 THEN current_request_time[t]
                       ELSE window_start
    /\ Goto(t, "classify")
    /\ UNCHANGED <<now, LAST_REQUEST_TIME, locals, outcome, events, issued,
                   admissions, returns, calls>>

\* -------------------------------------------- response_handling._wrapper
\* Lines 108-130: function() has returned response (line 81 of the gate).
Classify(t) ==
    /\ pc[t] = "classify"
    /\ Did(t, "classify")
    /\ outcome' = [outcome EXCEPT ![t] =
            response_handling(response[t], call[t].success_status_code,
                              call[t].on_success)]
    /\ Goto(t, "done")
    /\ UNCHANGED <<now, rate_state, locals, wrote, history, calls>>

\* One step of thread t's call to one of endpoints, answered from responses.
GateStep(t, responses) ==
    \/ TestFrequency(t)
    \/ ResetCount(t)
    \/ TestCount(t)
    \/ Function(t)
    \/ Request(t, responses)
    \/ UpdateLastRequestTime(t)
    \/ LoadCount(t)
    \/ StoreCount(t)
    \/ Classify(t)

Step(t, endpoints, responses) ==
    /\ \/ \E e \in endpoints : ReadTime(t, e)
       \/ GateStep(t, responses)
    /\ UNCHANGED client_state

\* Endpoints and responses of the specifications about the gate: a method
\* of each class that reaches its HTTP call, one whose body raises, and a
\* response of each kind.
GateEndpoints ==
    {e \in Endpoints : e.name \in {"databasefiles", "exact_search", "price_search_single"}}
GateResponses == {Response(200, BodyDetail), Response(404, BodyDetail)}

\* Threads call concurrently; the endpoint and the response do not bear on
\* the interleavings of the gate, so one of each is called.
ConcurrentEndpoints == {e \in Endpoints : e.name = "exact_search"}
ConcurrentResponses == {Response(201, BodyFound)}
Next ==
    /\ \E t \in Threads : Step(t, ConcurrentEndpoints, ConcurrentResponses)
    /\ calls' <= ConcurrentCalls
Spec == Init /\ [][Next]_vars

\* One thread issues calls one after another.
SeqNext == Step(Main, GateEndpoints, GateResponses)
SeqSpec == Init /\ [][SeqNext]_vars

\* One thread issues calls one after another, over every endpoint of both
\* classes and every response.
EndpointNext ==
    /\ Step(Main, Endpoints, Responses)
    /\ calls' <= EndpointCalls
EndpointSpec == Init /\ [][EndpointNext]_vars

\* response_handling as a function of its inputs: any response, any
\* success_status_code, either callback.
Handler(code, on_success) ==
    [NoEndpoint EXCEPT !.success_status_code = code, !.on_success = on_success]

ClassifierInit ==
    /\ now = ImportTime
    /\ LAST_REQUEST_TIME = IntSeconds(ImportTime) - DayOffset
    /\ REQUEST_COUNT = 0
    /\ pc = [t \in Threads |-> IF t = Main THEN "classify" ELSE "idle"]
    /\ \E code \in StatusCodes, on_success \in Callbacks :
          call = [t \in Threads |-> IF t = Main THEN Handler(code, on_success)
                                    ELSE NoEndpoint]
    /\ current_request_time = [t \in Threads |-> 0]
    /\ loaded_count = [t \in Threads |-> 0]
    /\ \E r \in Responses :
          response = [t \in Threads |-> IF t = Main THEN r ELSE NoResponse]
    /\ outcome = [t \in Threads |-> NoResult]
    /\ events = [t \in Threads |-> <<>>]
    /\ entry = [t \in Threads |-> NoEntry]
    /\ wrote = [t \in Threads |-> {}]
    /\ issued = <<>>
    /\ admissions = <<>>
    /\ returns = 0
    /\ window_start = IntSeconds(ImportTime) - DayOffset
    /\ calls = 0
    /\ ClientsInit({NoEnvironment})

ClassifierNext == Classify(Main) /\ UNCHANGED client_state
ClassifierSpec == ClassifierInit /\ [][ClassifierNext]_vars

\* ------------------------------------------------ clients and routes
\* Inputs of the constructors and of set_base_url: environments in which
\* each variable is set or not, the base_url arguments, the new base URLs.
Environments ==
    [MCULE_BASE_URL : {None, "https://env.example"},
     MCULE_ULTIMATE_BASE_URL : {None, "https://ultimate.env.example"}]
BaseUrlArguments == {None, "", "https://custom.example"}
BaseUrls == {"https://custom.example", "https://other.example"}

\* core.py:20-38 / 489-507: a client object is constructed and assigned to
\* c; no other thread has the object until __init__ has returned.  Clients
\* are numbered in the order of their construction.
Construct(t, c, wrapper, base_url) ==
    /\ pc[t] \in {"idle", "done"}
    /\ clients[c] = NoClient
    /\ \A d \in ClientIds : d < c => clients[d] # NoClient
    /\ clients' = [clients EXCEPT ![c] = Client(wrapper, "token", base_url, environ)]
    /\ given' = [given EXCEPT ![c] = base_url]
    /\ UNCHANGED <<pc, gate_state, environ, frame, seen, sets, through>>

\* A set_base_url that stores the value on every client of the class.
set_base_url_OnClass(t, c, value) ==
    /\ pc[t] \in {"idle", "done"}
    /\ clients[c] # NoClient
    /\ sets < MaxSets
    /\ clients' = [d \in ClientIds |->
                      IF clients[d].wrapper = clients[c].wrapper
                      THEN [clients[d] EXCEPT !.routes = ("_base_url" :> value) @@ @]
                      ELSE clients[d]]
    /\ frame' = [frame EXCEPT ![t] = [self |-> c, value |-> value, k |-> 1]]
    /\ sets' = sets + 1
    /\ Goto(t, "update_routes")
    /\ UNCHANGED <<gate_state, environ, given, seen, through>>

\* set_base_url(value) on client c: core.py:46 calls the setter, whose
\* first statement (urls.py:71) assigns self._base_url.
set_base_url(t, c, value) ==
    /\ pc[t] \in {"idle", "done"}
    /\ clients[c] # NoClient
    /\ sets < MaxSets
    /\ clients' = [clients EXCEPT ![c].routes = ("_base_url" :> value) @@ @]
    /\ frame' = [frame EXCEPT ![t] = [self |-> c, value |-> value, k |-> 1]]
    /\ sets' = sets + 1
    /\ Goto(t, "update_routes")
    /\ UNCHANGED <<gate_state, environ, given, seen, through>>

\* urls.py:72, self._update_routes(): its next assignment; after the
\* assignment that is `skipped` before the last in the code, the setter
\* returns.
UpdateRouteBut(t, skipped) ==
    /\ pc[t] = "update_routes"
    /\ LET c == frame[t].self
           wrapper == clients[c].wrapper
       IN  /\ clients' = [clients EXCEPT ![c].routes =
                              AssignRoute(wrapper, @, frame[t].k)]
           /\ IF frame[t].k >= Len(UpdateRoutes(wrapper)) - skipped
              THEN Goto(t, "idle")
              ELSE UNCHANGED pc
    /\ frame' = [frame EXCEPT ![t].k = @ + 1]
    /\ UNCHANGED <<gate_state, environ, given, seen, sets, through>>

\* A setter that returns before the last assignment of _update_routes.
UpdateRoute_ButLast(t) == UpdateRouteBut(t, 1)
UpdateRoute(t) == UpdateRouteBut(t, 0)

\* A thread reads one attribute of the route table of client c
\* (self.routes.<attribute>, or the base_url property for "_base_url").
ReadRoute(t, c, attribute) ==
    /\ pc[t] \in {"idle", "done"}
    /\ clients[c] # NoClient
    /\ attribute \in DOMAIN clients[c].routes
    /\ seen' = [seen EXCEPT ![t] = [self |-> c, attribute |-> attribute,
                                    value |-> clients[c].routes[attribute],
                                    routes |-> clients[c].routes,
                                    setting |-> {u \in Threads :
                                                    /\ pc[u] = "update_routes"
                                                    /\ frame[u].self = c}]]
    /\ UNCHANGED <<pc, gate_state, environ, clients, given, frame, sets, through>>

\* One step of thread t on the clients cs: constructions of the classes in
\* wrappers with the arguments given, set_base_url with the values given,
\* reads of the attributes given.
RouteStep(t, cs, wrappers, arguments, values, attributes) ==
    \/ \E c \in cs, w \in wrappers, b \in arguments : Construct(t, c, w, b)
    \/ \E c \in cs, v \in values : set_base_url(t, c, v)
    \/ UpdateRoute(t)
    \/ \E c \in cs, a \in attributes : ReadRoute(t, c, a)

\* The attributes the reads are of: the base_url property and the last
\* route _update_routes assigns.
AttributesRead == {"_base_url", "downloadquote_url"}

\* One thread constructs clients of both classes on a base URL of its own,
\* replaces their base URLs and reads their routes.
RouteSeqNext ==
    RouteStep(Main, ClientIds, Wrappers, {"https://custom.example"}, BaseUrls,
              AttributesRead)
RouteSeqSpec == Init /\ [][RouteSeqNext]_vars

\* Threads replace the base URL of one client and read its routes
\* concurrently.
RoutesNext ==
    \E t \in Threads : RouteStep(t, {1}, Wrappers, {None}, BaseUrls, AttributesRead)
RoutesSpec == Init /\ [][RoutesNext]_vars

\* Clients of both classes are constructed in every environment and with
\* every base_url argument.
ConstructInit ==
    /\ RateInit(ImportTime, IntSeconds(ImportTime) - DayOffset)
    /\ ClientsInit(Environments)
ConstructNext ==
    \E c \in ClientIds, w \in Wrappers, b \in BaseUrlArguments : Construct(Main, c, w, b)
ConstructSpec == ConstructInit /\ [][ConstructNext]_vars

\* An endpoint method of client c is called: ReadTime, through c.
Call(t, c, e) ==
    /\ clients[c] # NoClient
    /\ e.wrapper = clients[c].wrapper
    /\ ReadTime(t, e)
    /\ through' = Append(through, c)
    /\ UNCHANGED <<environ, clients, given, frame, seen, sets>>

\* The state after import and the construction of the clients with no
\* base_url argument and no environment variable, their classes being one
\* of the assignments ws.
ConstructedInit(ws) ==
    /\ RateInit(ImportTime, IntSeconds(ImportTime) - DayOffset)
    /\ environ = NoEnvironment
    /\ \E w \in ws :
          clients = [c \in ClientIds |-> Client(w[c], "token", None, NoEnvironment)]
    /\ given = [c \in ClientIds |-> None]
    /\ frame = [t \in Threads |-> NoFrame]
    /\ seen = [t \in Threads |-> NoSeen]
    /\ sets = 0
    /\ through = <<>>

\* Clients of the two classes in turn: a standard one first.
EitherClass ==
    [c \in ClientIds |-> IF c % 2 = 1 THEN "MCuleWrapper" ELSE "UltimateMCuleWrapper"]

\* The clients the calls are made through: the first and the last.
CallClients == {1, NumClients}
ClientEndpoints == {e \in Endpoints : e.name \in {"databasefiles", "exact_search"}}
ClientResponses == {Response(200, BodyDetail)}

\* One thread calls an endpoint through the first and the last client.
ClientNext ==
    /\ \/ \E c \in CallClients, e \in ClientEndpoints : Call(Main, c, e)
       \/ GateStep(Main, ClientResponses) /\ UNCHANGED client_state
    /\ calls' <= ClientCalls
ClientSpec == ConstructedInit({EitherClass}) /\ [][ClientNext]_vars

\* One thread calls endpoints through clients of any classes and replaces
\* the base URL of the first client.
SetNext ==
    /\ \/ \E c \in CallClients, e \in ClientEndpoints : Call(Main, c, e)
       \/ GateStep(Main, ClientResponses) /\ UNCHANGED client_state
       \/ set_base_url(Main, 1, "https://other.example")
       \/ UpdateRoute(Main)
    /\ calls' <= SetCalls
SetSpec == ConstructedInit([ClientIds -> Wrappers]) /\ [][SetNext]_vars

\* ============================================================= claims
Has(t, event) == \E i \in 1..Len(events[t]) : events[t][i] = event
Count(t, event) == Cardinality({i \in 1..Len(events[t]) : events[t][i] = event})

\* Thread t's call has passed the gate.
Admitted(t) == Has(t, "admitted")
\* Thread t's call has been decided by the gate, one way or the other.
Decided(t) == pc[t] \notin {"idle", "test_frequency", "reset_count", "test_count"}
\* Thread t's call is over.
Done(t) == pc[t] = "done"
Rejections == {"RequestTimeoutNotElapsed", "RequestsPerMinuteExceeded"}
Rejected(t) == Done(t) /\ outcome[t].raised \in Rejections

\* Elapsed time of t's call since the last request recorded when it started.
EntryElapsed(t) == current_request_time[t] - entry[t].last

\* The calls of t and u overlap: one was in progress when the other started.
Concurrent(t, u) ==
    entry[u].id \in entry[t].inflight \/ entry[t].id \in entry[u].inflight

\* Thread t's call started with one admission left, spaced from the last
\* request so that neither the frequency test nor the reset applies to it.
TakesLastSlot(t) ==
    /\ pc[t] # "idle"
    /\ entry[t].count = MAXIMUM_REQUESTS_PER_MINUTE - 1
    /\ EntryElapsed(t) >= MININUM_TIMEOUT_BETWEEN_REQUESTS
    /\ EntryElapsed(t) < ResetAfter

\* C1: of K >= 2 concurrent calls that each start with the counter one below
\* the maximum, exactly one is admitted and the others fail with
\* RequestsPerMinuteExceeded.
C1_OneSlotOneAdmission ==
    \A S \in SUBSET Threads :
        ( /\ Cardinality(S) >= 2
          /\ \A t \in S : TakesLastSlot(t) /\ Decided(t)
          /\ \A t, u \in S : t # u => Concurrent(t, u) )
        => \E t \in S :
              /\ Admitted(t)
              /\ \A u \in S \ {t} : /\ ~Admitted(u)
                                    /\ outcome[u].raised = "RequestsPerMinuteExceeded"

\* No call is in progress.
Quiet == \A t \in Threads : pc[t] \in {"idle", "done"}
\* Consecutive calls are at least the minimum timeout apart.
Spaced ==
    \A i \in 2..Len(issued) :
        issued[i] - issued[i - 1] >= MININUM_TIMEOUT_BETWEEN_REQUESTS
\* Every call was issued less than 60 s after the first.
WithinAMinute ==
    \A i \in 1..Len(issued) : issued[i] - issued[1] < ResetAfter

LastAdmission(t) == admissions[entry[t].admitted].time

\* C3: a call issued less than the minimum timeout after the last admitted
\* call fails with RequestTimeoutNotElapsed and leaves REQUEST_COUNT as it was.
C3_TooSoonIsRejected ==
    \A t \in Threads :
        ( /\ Done(t)
          /\ entry[t].admitted > 0
          /\ current_request_time[t] - LastAdmission(t)
                < MININUM_TIMEOUT_BETWEEN_REQUESTS )
        => /\ outcome[t].raised = "RequestTimeoutNotElapsed"
           /\ REQUEST_COUNT = entry[t].count

\* C4: a call that starts with REQUEST_COUNT at the maximum, at least the
\* minimum timeout after the last request and less than 60 s after the start
\* of the window, fails with RequestsPerMinuteExceeded.
C4_QuotaExhausted ==
    \A t \in Threads :
        ( /\ Done(t)
          /\ entry[t].count >= MAXIMUM_REQUESTS_PER_MINUTE
          /\ EntryElapsed(t) >= MININUM_TIMEOUT_BETWEEN_REQUESTS
          /\ current_request_time[t] - entry[t].window < ResetAfter )
        => outcome[t].raised = "RequestsPerMinuteExceeded"

C4_Witness ==
    \E t \in Threads :
        /\ Done(t)
        /\ entry[t].count = MAXIMUM_REQUESTS_PER_MINUTE
        /\ EntryElapsed(t) >= MININUM_TIMEOUT_BETWEEN_REQUESTS
        /\ current_request_time[t] - entry[t].window < ResetAfter
        /\ outcome[t].raised = "RequestsPerMinuteExceeded"

\* C5: a call issued 60 s or more after the start of the current window is
\* admitted and, once its operation has returned, leaves REQUEST_COUNT = 1.
C5_NewWindowAdmits ==
    \A t \in Threads :
        (Done(t) /\ current_request_time[t] - entry[t].window >= ResetAfter)
        => /\ Admitted(t)
           /\ Has(t, "classify") => REQUEST_COUNT = 1

\* C6: a call the gate rejects has done nothing but read the clock once: the
\* wrapped operation was not invoked, no request was issued, and
\* LAST_REQUEST_TIME and REQUEST_COUNT are as they were when it started.
C6_RejectionIsPure ==
    \A t \in Threads :
        Rejected(t)
        => /\ events[t] = <<>>
           /\ wrote[t] = {}
           /\ LAST_REQUEST_TIME = entry[t].last
           /\ REQUEST_COUNT = entry[t].count
           /\ now = current_request_time[t]

C6_Witness ==
    \E t \in Threads :
        /\ Rejected(t)
        /\ outcome[t].raised = "RequestsPerMinuteExceeded"
        /\ REQUEST_COUNT = MAXIMUM_REQUESTS_PER_MINUTE
        /\ events[t] = <<>>

\* C7: of the calls issued one after another, no more than
\* MAXIMUM_REQUESTS_PER_MINUTE are admitted within any 60 s.
C7_BudgetPerMinute ==
    \A i \in 1..Len(admissions) :
        Cardinality({j \in 1..Len(admissions) :
                        /\ admissions[j].time >= admissions[i].time
                        /\ admissions[j].time - admissions[i].time < ResetAfter})
            <= MAXIMUM_REQUESTS_PER_MINUTE

\* C8: an endpoint operation that passes the gate issues exactly one HTTP
\* request, after the gate's check and before the response is classified.
C8_OneRequestAfterGateBeforeClassifier ==
    \A t \in Threads :
        (Done(t) /\ Admitted(t))
        => /\ Count(t, "request") = 1
           /\ \A i, j \in 1..Len(events[t]) :
                /\ (events[t][i] = "admitted" /\ events[t][j] = "request") => i < j
                /\ (events[t][i] = "request" /\ events[t][j] = "classify") => i < j

\* C9: an endpoint operation returns the classifier's result or fails with
\* an exception of the rate limiter or of the HTTP transport, and no other.
C9_OnlyGateOrTransportRaise ==
    \A t \in Threads :
        Done(t) => outcome[t].raised \in {None, "RequestException"} \cup Rejections

\* C10: when the status is the configured success code the classifier gives
\* what the success callback gives for the response, whatever the code; with
\* default_on_success and a JSON body that is {"response": parsed body}, and
\* nothing is logged.
C10_SuccessTakesPrecedence ==
    \A t \in Threads :
        (Has(t, "classify") /\ response[t].status_code = call[t].success_status_code)
        => /\ outcome[t] = on_success_call(call[t].on_success, response[t])
           /\ (call[t].on_success = "default_on_success" /\ response[t].text # BodyNotJson)
              => outcome[t] = Returned([response |-> Json(response[t]).value], <<>>)

C10_Witness ==
    \E t \in Threads :
        /\ Has(t, "classify")
        /\ call[t].success_status_code = 404
        /\ response[t] = Response(404, BodyDetail)
        /\ call[t].on_success = "default_on_success"
        /\ outcome[t] = Returned([response |-> [detail |-> "x"]], <<>>)

\* The statuses response_handling has a failure category for, and the
\* category it names in the error-level entry.
FailureCodes == {400, 401, 403, 404, 429, 500}
Category(status_code) ==
    CASE status_code = 400 -> "Bad request - probably a validation error"
      [] status_code = 401 -> "Unauthorised - check your API key"
      [] status_code = 403 -> "Permission denied"
      [] status_code = 404 -> "Not found"
      [] status_code = 429 -> "Too many requests made"
      [] status_code = 500 -> "Server error"

\* C11: for a status that is not the configured success code and is one of
\* 400, 401, 403, 404, 429, 500 the classifier raises nothing, logs exactly one
\* error-level entry naming the category and one debug-level entry with the
\* response body, and returns {"response": the raw response}.
C11_FailureIsLoggedAndWrapped ==
    \A t \in Threads :
        ( /\ Has(t, "classify")
          /\ response[t].status_code # call[t].success_status_code
          /\ response[t].status_code \in FailureCodes )
        => /\ outcome[t].raised = None
           /\ outcome[t].value = [response |-> response[t]]
           /\ outcome[t].log = <<[level |-> "error",
                                  message |-> Category(response[t].status_code)],
                                 [level |-> "debug", message |-> response[t].text]>>

C11_Witness ==
    \E t \in Threads :
        /\ Has(t, "classify")
        /\ call[t].success_status_code = 200
        /\ response[t] = Response(404, BodyNotJson)
        /\ outcome[t].raised = None
        /\ outcome[t].value = [response |-> Response(404, BodyNotJson)]
        /\ Len(outcome[t].log) = 2
        /\ outcome[t].log[1] = [level |-> "error", message |-> "Not found"]

\* Thread t's call gave the search transform a response with the success code.
SearchTransformed(t) ==
    /\ Has(t, "classify")
    /\ call[t].on_success = "search_result_on_success"
    /\ response[t].status_code = call[t].success_status_code

\* C12: the search transform gives {"compound_id": results[0].compound.idx,
\* "response": parsed body} for a body with a non-empty results list, and fails
\* with IndexError for an empty results list and with KeyError for a body
\* where results, compound or idx is missing; the failure reaches the caller.
C12_SearchTransform ==
    \A t \in Threads :
        SearchTransformed(t)
        => /\ response[t].text = BodyFound
                => outcome[t] =
                     Returned([compound_id |-> "MCULE-001",
                               response |-> [results |->
                                   <<[compound |-> [idx |-> "MCULE-001"]]>>]], <<>>)
           /\ response[t].text = BodyEmpty => outcome[t] = Raised("IndexError", <<>>)
           /\ response[t].text \in {BodyDetail, BodyNoCompound, BodyNoIdx}
                => outcome[t] = Raised("KeyError", <<>>)

C12_Witness ==
    \E t \in Threads :
        /\ SearchTransformed(t)
        /\ response[t].text = BodyEmpty
        /\ outcome[t].raised = "IndexError"

\* The route table _update_routes builds in full from one base URL.
Rebuilt(wrapper, base) == update_routes(wrapper, "_base_url" :> base, 1)

\* Thread t's set_base_url call has returned.
SetReturned(t) == pc[t] = "idle" /\ frame[t].k > 0

\* C13: once set_base_url(new) has returned on a client, of either class,
\* api_url and every endpoint template of its route table are the ones built
\* from new; none is left from the previous base URL.
C13_AllRoutesFromNewBase ==
    \A t \in Threads :
        SetReturned(t)
        => LET self == clients[frame[t].self]
           IN  /\ DOMAIN self.routes = RouteNames(self.wrapper) \cup {"_base_url"}
               /\ \A attribute \in DOMAIN self.routes :
                     self.routes[attribute] =
                         Rebuilt(self.wrapper, frame[t].value)[attribute]

C13_Witness ==
    \E t \in Threads :
        /\ SetReturned(t)
        /\ frame[t].value = "https://other.example"
        /\ given[frame[t].self] = "https://custom.example"
        /\ clients[frame[t].self].wrapper = "MCuleWrapper"
        /\ clients[frame[t].self].routes["api_url"] = "https://other.example/api/v1"
        /\ clients[frame[t].self].routes["downloadquote_url"] =
              "https://other.example/api/v1/iquotes/{quote_id}/{download_type}"

\* C14: a thread that reads a route of a client while another thread is
\* inside set_base_url on that client reads in a state where the base_url
\* property and all route attributes are those of one base URL.
C14_NoMixedRoutes ==
    \A t \in Threads :
        (seen[t].self # 0 /\ seen[t].setting # {})
        => seen[t].routes =
              Rebuilt(clients[seen[t].self].wrapper, seen[t].routes["_base_url"])

\* C15: the base URL of a newly constructed route table is the base_url
\* argument when one is given (the empty string included), else the variant's
\* environment variable when set, else the variant's default host.
C15_BaseUrlResolution ==
    \A c \in ClientIds :
        clients[c] # NoClient
        => clients[c].routes["_base_url"] =
              IF given[c] # None THEN given[c]
              ELSE IF environ[EnvironmentVariable(clients[c].wrapper)] # None
              THEN environ[EnvironmentVariable(clients[c].wrapper)]
              ELSE DefaultHost(clients[c].wrapper)

\* C16: two overlapping calls that are both admitted and both run to their
\* end, neither resetting the counter and no other call in progress, leave
\* REQUEST_COUNT two above what it was when the first of them started: no
\* increment is lost.
C16_NoLostIncrement ==
    \A t, u \in Threads :
        ( /\ entry[t].id < entry[u].id
          /\ entry[t].id \in entry[u].inflight
          /\ entry[t].inflight = {}
          /\ Done(t) /\ Done(u)
          /\ Has(t, "classify") /\ Has(u, "classify")
          /\ ~Has(t, "reset") /\ ~Has(u, "reset") )
        => REQUEST_COUNT = entry[t].count + 2

\* C17: in every reachable state, whatever the interleaving of the calls,
\* 0 <= REQUEST_COUNT <= MAXIMUM_REQUESTS_PER_MINUTE.
C17_CountWithinBounds ==
    REQUEST_COUNT >= 0 /\ REQUEST_COUNT <= MAXIMUM_REQUESTS_PER_MINUTE

\* C18: the first call of a process, whose gate runs in the initial rate
\* state (counter 0, timestamp one day before the import), is admitted:
\* neither RequestTimeoutNotElapsed nor RequestsPerMinuteExceeded is raised.
C18_FirstCallAdmitted ==
    \A t \in Threads :
        (entry[t].id = 1 /\ Decided(t))
        => /\ Admitted(t)
           /\ outcome[t].raised \notin Rejections

C18_Witness ==
    \E t \in Threads :
        /\ entry[t].id = 1
        /\ entry[t].count = 0
        /\ entry[t].last = IntSeconds(ImportTime) - DayOffset
        /\ current_request_time[t] = ImportTime
        /\ Done(t)
        /\ Has(t, "classify")

\* Thread t's call started with the quota exhausted, 60 s or more after the
\* last admitted call.
AfterExhaustedQuota(t) ==
    /\ pc[t] # "idle"
    /\ entry[t].admitted > 0
    /\ entry[t].count >= MAXIMUM_REQUESTS_PER_MINUTE
    /\ current_request_time[t] - LastAdmission(t) >= ResetAfter

\* C19: once the quota is exhausted, a call made 60 s or more after the last
\* admitted call is admitted, however many attempts were rejected in between.
C19_AdmittedAMinuteAfterLastAdmission ==
    \A t \in Threads : (AfterExhaustedQuota(t) /\ Decided(t)) => Admitted(t)

\* The call was preceded by a rejected attempt made after the last admission.
C19_Witness ==
    \E t \in Threads :
        /\ AfterExhaustedQuota(t)
        /\ Decided(t) /\ Admitted(t)
        /\ entry[t].id = entry[t].admitted + 2
        /\ issued[entry[t].id - 1] > LastAdmission(t)
        /\ current_request_time[t] - issued[entry[t].id - 1] < ResetAfter

\* C20: for a status that is neither the configured success code nor one of
\* 400, 401, 403, 404, 429, 500 (a 200 where 201 is expected included) the
\* classifier returns {"response": the raw response}: the success transform
\* is not applied, nothing is raised, and nothing is logged at error level.
C20_OtherStatusIsWrapped ==
    \A t \in Threads :
        ( /\ Has(t, "classify")
          /\ response[t].status_code # call[t].success_status_code
          /\ response[t].status_code \notin FailureCodes )
        => /\ outcome[t].raised = None
           /\ outcome[t].value = [response |-> response[t]]
           /\ \A i \in 1..Len(outcome[t].log) : outcome[t].log[i].level # "error"

C20_Witness ==
    \E t \in Threads :
        /\ Has(t, "classify")
        /\ call[t].success_status_code = 201
        /\ response[t] = Response(200, BodyFound)
        /\ outcome[t] = Returned([response |-> Response(200, BodyFound)], <<>>)

\* Thread t's call is the last one issued, and the first through its client.
FirstThroughItsClient(t) ==
    /\ entry[t].id = Len(through)
    /\ entry[t].id > 1
    /\ \A i \in 1..(entry[t].id - 1) : through[i] # through[entry[t].id]

\* C21: the rate state is one for all operations of all clients: a call that
\* returns, through whichever client, leaves LAST_REQUEST_TIME at its time and
\* REQUEST_COUNT one above what it found (or at 1 after a reset); and once
\* calls through other clients have exhausted the quota, the next call
\* through a client not used before is rejected.
C21_OneRateStateForAllClients ==
    \A t \in Threads :
        /\ (Done(t) /\ Has(t, "classify") /\ entry[t].id = Len(through))
           => /\ LAST_REQUEST_TIME = current_request_time[t]
              /\ REQUEST_COUNT = (IF Has(t, "reset") THEN 0 ELSE entry[t].count) + 1
        /\ ( /\ Done(t)
             /\ FirstThroughItsClient(t)
             /\ entry[t].count >= MAXIMUM_REQUESTS_PER_MINUTE
             /\ EntryElapsed(t) >= MININUM_TIMEOUT_BETWEEN_REQUESTS
             /\ EntryElapsed(t) < ResetAfter )
           => outcome[t].raised = "RequestsPerMinuteExceeded"

C21_Witness ==
    \E t \in Threads :
        /\ Done(t)
        /\ FirstThroughItsClient(t)
        /\ clients[through[1]].wrapper = "MCuleWrapper"
        /\ clients[through[entry[t].id]].wrapper = "UltimateMCuleWrapper"
        /\ call[t].name = "exact_search"
        /\ entry[t].count = MAXIMUM_REQUESTS_PER_MINUTE
        /\ outcome[t].raised = "RequestsPerMinuteExceeded"

\* C22: every step of set_base_url on a client changes the route table of
\* that client alone: its headers, its token and its class, every other
\* client, LAST_REQUEST_TIME and REQUEST_COUNT are left as they were.
C22_SetBaseUrlChangesOneTable ==
    [][\A t \in Threads :
          (pc[t] = "update_routes" \/ pc'[t] = "update_routes")
          => /\ \A d \in ClientIds \ {frame'[t].self} : clients'[d] = clients[d]
             /\ clients'[frame'[t].self] =
                   [clients[frame'[t].self] EXCEPT
                       !.routes = clients'[frame'[t].self].routes]
             /\ LAST_REQUEST_TIME' = LAST_REQUEST_TIME
             /\ REQUEST_COUNT' = REQUEST_COUNT]_vars

\* set_base_url has returned on the first client, after a call was counted,
\* with a second client of the same class.
C22_Witness ==
    /\ SetReturned(Main)
    /\ REQUEST_COUNT = 1
    /\ clients[1].wrapper = "MCuleWrapper"
    /\ clients[NumClients].wrapper = "MCuleWrapper"
    /\ clients[1].routes["api_url"] = "https://other.example/api/v1"
    /\ clients[NumClients].routes["api_url"] = "https://mcule.com/api/v1"
    /\ clients[1].headers["Authorization"] = "Token token"

\* C23: LAST_REQUEST_TIME never decreases, whatever the interleaving of the
\* calls and however long their operations take.
C23_LastRequestTimeNeverDecreases ==
    [][LAST_REQUEST_TIME' >= LAST_REQUEST_TIME]_vars

\* Thread t's call was admitted and its wrapped operation raised.
OperationRaised(t) ==
    /\ Done(t)
    /\ Admitted(t)
    /\ ~Has(t, "classify")

\* C24: when the wrapped operation of an admitted call raises, the exception
\* reaches the caller and the call has advanced neither LAST_REQUEST_TIME nor
\* REQUEST_COUNT: the one is as the call found it, the other as the call
\* found it or as its reset at line 68 left it.
C24_RaisingCallLeavesRateState ==
    \A t \in Threads :
        OperationRaised(t)
        => /\ outcome[t].raised \in {"RequestException", "NameError", "AttributeError"}
           /\ LAST_REQUEST_TIME = entry[t].last
           /\ "LAST_REQUEST_TIME" \notin wrote[t]
           /\ REQUEST_COUNT = IF Has(t, "reset") THEN 0 ELSE entry[t].count

C24_Witness ==
    \E t \in Threads :
        /\ OperationRaised(t)
        /\ outcome[t].raised = "RequestException"
        /\ entry[t].count = 1
        /\ REQUEST_COUNT = 1
        /\ LAST_REQUEST_TIME = entry[t].last
        /\ current_request_time[t] > entry[t].last

====
